---- MODULE Spec2Model ----
(***************************************************************************)
(* Interview session state machine of openinterviewer: the zustand store   *)
(* (src/store.ts), the InterviewChat component that drives it              *)
(* (src/components/InterviewChat.tsx) and the provider-side normalisation  *)
(* of the collaborator's structured output (src/lib/providers, lib/ai.ts). *)
(*                                                                         *)
(* A second specification, ServerSpec, is the server behind it: the Vercel  *)
(* KV wrappers and the token check (src/lib/kv.ts) and the save and         *)
(* aggregate-synthesis routes, one request at a time, each storage call a   *)
(* step that answers or throws.                                             *)
(*                                                                         *)
(* Abstractions: message ids and Date.now() timestamps (profile id,        *)
(* extractedAt, message timestamp) are left out; strings are tokens; a     *)
(* rawContext string is the sequence of its tokens, "\n" being one token.  *)
(***************************************************************************)
EXTENDS Integers, Sequences, FiniteSets, TLC

\* ---------------------------------------------------------------- bounds
MaxTurns == 2        \* participant turns per session
MaxFields == 2       \* profile fields of a study
MaxQuestions == 2    \* core questions of a study
MaxUpdates == 2      \* profileUpdates entries of one collaborator response
MaxSaves == 2        \* save requests that reach the server's Date.now()

\* ------------------------------------------------------------- constants
Null == "null"                 \* JS null / undefined of a string-typed slot
NoQuestion == 0 - 1            \* JS null / undefined of questionAddressed

Phases == {"background", "core-questions", "exploration", "feedback", "wrap-up"}

\* a phaseTransition string outside the InterviewPhase enum
InvalidPhase == "finale"

PhaseKeys == Phases \cup {InvalidPhase}

FieldNames == <<"f1", "f2", "f3", "f4">>

FieldIds == {FieldNames[i] : i \in 1..MaxFields}

\* a fieldId no schema declares
UnknownField == "zz"

UserText(k) == <<"t1", "t2", "t3", "t4", "t5">>[k]

ReplyMessage == "reply"
GreetingMessage == "greeting"
TellMeMore == "That's interesting. Could you tell me more?"
CatchMessage == "I appreciate you sharing that. Could you tell me more?"

\* ------------------------------------------------------------ the inputs
\* profile schemas with unique ids: for each length the ids in descending
\* order, so that schema order and id order differ
Schemas == {[i \in 1..n |-> FieldNames[n + 1 - i]] : n \in 0..MaxFields}

StudyConfigs ==
  {[id |-> "study", profileSchema |-> sch, coreQuestions |-> MaxQuestions]
     : sch \in Schemas}

NoStudy == [id |-> Null, profileSchema |-> <<>>, coreQuestions |-> 0]

\* the update a response declares for field i; fields differ in what is declared
DeclaredValue(i) == <<"v", Null, "w", "v">>[i]

DeclaredStatus(i) == <<"extracted", "refused", "vague", "refused">>[i]

ProfileUpdate ==
  {[fieldId |-> FieldNames[i], value |-> DeclaredValue(i), status |-> DeclaredStatus(i)]
     : i \in 1..MaxFields}
  \cup {[fieldId |-> UnknownField, value |-> "v", status |-> "extracted"]}

\* profileUpdates lists: no update is listed twice
UpdateSeqs ==
  UNION {{u \in [1..n -> ProfileUpdate] : \A i, j \in 1..n : u[i] = u[j] => i = j}
         : n \in 0..MaxUpdates}

\* what JSON.parse(cleanJSON(text)) / the tool_use input can hold; a Null
\* (NoQuestion) slot is an absent or null property.  The payloads are every
\* combination of questionAddressed, phaseTransition and shouldConclude
\* without profile updates, every profileUpdates list with and without a
\* phase transition and a conclusion, and payloads without a message.
ParsedPayloads ==
  {[message |-> ReplyMessage, questionAddressed |-> q, phaseTransition |-> p,
    profileUpdates |-> <<>>, shouldConclude |-> c]
     : q \in {NoQuestion} \cup 0..(MaxQuestions - 1),
       p \in {Null} \cup PhaseKeys,
       c \in BOOLEAN}
  \cup
  {[message |-> ReplyMessage, questionAddressed |-> NoQuestion, phaseTransition |-> p,
    profileUpdates |-> u, shouldConclude |-> c]
     : p \in {Null, "core-questions"},
       u \in UpdateSeqs,
       c \in BOOLEAN}
  \cup
  {[message |-> Null, questionAddressed |-> NoQuestion, phaseTransition |-> p,
    profileUpdates |-> <<>>, shouldConclude |-> FALSE]
     : p \in {Null, "exploration"}}

\* payloads whose questionAddressed is a number that is not an index of a
\* core question: the response schema types it NUMBER, nothing bounds it
UnboundedIndexPayloads ==
  {[message |-> ReplyMessage, questionAddressed |-> q, phaseTransition |-> Null,
    profileUpdates |-> <<>>, shouldConclude |-> FALSE]
     : q \in {MaxQuestions, MaxQuestions + 1}}

\* ------------------------------------------------------------ lib/ai.ts

\* mutant: the provider fallback asks to conclude
defaultInterviewResponse_Concluding ==
  [message |-> "I appreciate you sharing that. What else comes to mind?",
   questionAddressed |-> NoQuestion,
   phaseTransition |-> Null,
   profileUpdates |-> <<>>,
   shouldConclude |-> TRUE]

defaultInterviewResponse ==
  [message |-> "I appreciate you sharing that. What else comes to mind?",
   questionAddressed |-> NoQuestion,
   phaseTransition |-> Null,
   profileUpdates |-> <<>>,
   shouldConclude |-> FALSE]

\* the object both providers build from the parsed payload
ProviderResponse(parsed) ==
  [message |-> IF parsed.message = Null THEN TellMeMore ELSE parsed.message,
   questionAddressed |-> parsed.questionAddressed,
   phaseTransition |-> parsed.phaseTransition,
   profileUpdates |-> parsed.profileUpdates,
   shouldConclude |-> parsed.shouldConclude]

NoResponse ==
  [message |-> Null, questionAddressed |-> NoQuestion, phaseTransition |-> Null,
   profileUpdates |-> <<>>, shouldConclude |-> FALSE]

\* ------------------------------------------------------------- store.ts
NoProfile == [id |-> Null, fields |-> <<>>, rawContext |-> <<>>]

initialQuestionProgress ==
  [questionsAsked |-> <<>>, total |-> 0, currentPhase |-> "background",
   isComplete |-> FALSE]

initialBehaviorData == [messagesPerTopic |-> [p \in PhaseKeys |-> 0]]

InitialStore ==
  [studyConfig |-> NoStudy,
   participantProfile |-> NoProfile,
   questionProgress |-> initialQuestionProgress,
   interviewHistory |-> <<>>,
   behaviorData |-> initialBehaviorData,
   contextEntries |-> <<>>,
   isAiThinking |-> FALSE]

setStudyConfig(s, config) == [s EXCEPT !.studyConfig = config]

initializeProfile(s, schema) ==
  [s EXCEPT
     !.participantProfile =
        [id |-> "p",
         fields |-> [i \in 1..Len(schema) |->
                       [fieldId |-> schema[i], value |-> Null, status |-> "pending"]],
         rawContext |-> <<>>],
     !.questionProgress =
        [questionsAsked |-> <<>>, total |-> 0, currentPhase |-> "background",
         isComplete |-> FALSE]]


\* mutant: the fieldId test is dropped, every entry is overwritten
updateProfileField_EveryField(s, fieldId, value, status) ==
  IF s.participantProfile.id = Null THEN s
  ELSE [s EXCEPT !.participantProfile.fields =
          [i \in DOMAIN @ |->
             [fieldId |-> @[i].fieldId, value |-> value, status |-> status]]]

\* mutant: an update for a fieldId without an entry adds an entry (upsert)
updateProfileField_Upsert(s, fieldId, value, status) ==
  IF s.participantProfile.id = Null THEN s
  ELSE IF \E i \in DOMAIN s.participantProfile.fields :
             s.participantProfile.fields[i].fieldId = fieldId
    THEN [s EXCEPT !.participantProfile.fields =
            [i \in DOMAIN @ |->
               IF @[i].fieldId = fieldId
                 THEN [fieldId |-> @[i].fieldId, value |-> value, status |-> status]
                 ELSE @[i]]]
    ELSE [s EXCEPT !.participantProfile.fields =
            Append(@, [fieldId |-> fieldId, value |-> value, status |-> status])]

updateProfileField(s, fieldId, value, status) ==
  IF s.participantProfile.id = Null THEN s
  ELSE [s EXCEPT !.participantProfile.fields =
          [i \in DOMAIN @ |->
             IF @[i].fieldId = fieldId
               THEN [fieldId |-> @[i].fieldId, value |-> value, status |-> status]
               ELSE @[i]]]

setProfileRawContext(s, context) ==
  IF s.participantProfile.id = Null THEN s
  ELSE [s EXCEPT !.participantProfile.rawContext = context]

setInterviewPhase(s, phase) == [s EXCEPT !.questionProgress.currentPhase = phase]


\* mutant: the alreadyAsked test is dropped
markQuestionAsked_NoCheck(s, questionIndex) ==
  [s EXCEPT !.questionProgress.questionsAsked = Append(@, questionIndex)]

markQuestionAsked(s, questionIndex) ==
  LET alreadyAsked ==
        \E i \in DOMAIN s.questionProgress.questionsAsked :
           s.questionProgress.questionsAsked[i] = questionIndex
  IN IF alreadyAsked THEN s
     ELSE [s EXCEPT !.questionProgress.questionsAsked = Append(@, questionIndex)]


\* mutant: completion leaves the phase alone
completeInterview_FlagOnly(s) ==
  [s EXCEPT !.questionProgress.isComplete = TRUE]

completeInterview(s) ==
  [s EXCEPT !.questionProgress.currentPhase = "wrap-up",
            !.questionProgress.isComplete = TRUE]


\* mutant: the message is put at the front of the transcript
addMessage_Prepend(s, message) ==
  LET phase == s.questionProgress.currentPhase
      currentCount == s.behaviorData.messagesPerTopic[phase]
  IN [s EXCEPT !.interviewHistory = <<message>> \o @,
               !.behaviorData.messagesPerTopic[phase] = currentCount + 1]

\* mutant: only participant messages are counted
addMessage_UserOnly(s, message) ==
  LET phase == s.questionProgress.currentPhase
      currentCount == s.behaviorData.messagesPerTopic[phase]
  IN IF message.role = "user"
       THEN [s EXCEPT !.interviewHistory = Append(@, message),
                      !.behaviorData.messagesPerTopic[phase] = currentCount + 1]
       ELSE [s EXCEPT !.interviewHistory = Append(@, message)]

addMessage(s, message) ==
  LET phase == s.questionProgress.currentPhase
      currentCount == s.behaviorData.messagesPerTopic[phase]
  IN [s EXCEPT !.interviewHistory = Append(@, message),
               !.behaviorData.messagesPerTopic[phase] = currentCount + 1]

appendContext(s, text) == [s EXCEPT !.contextEntries = Append(@, text)]

setAiThinking(s, thinking) == [s EXCEPT !.isAiThinking = thinking]

\* ------------------------------------------- components/InterviewChat.tsx
\* ======================================================================
\* Server side: lib/kv.ts, lib/auth.ts, the save and aggregate routes
\* ======================================================================
\* Abstractions: an interview's studyName, participantProfile and
\* behaviorData and a study's config other than linksEnabled are left out;
\* a synthesis is one token; getStudyInterviews' result is a set (its sort
\* by createdAt is not modelled).

Studies == {"study-a", "study-b"}

InterviewIds == {"int-1", "int-2"}

\* a string the /^[a-zA-Z0-9-]+$/ test rejects
BadFormat == "bad id!"

ValidFormat(x) == x \in Studies \cup InterviewIds

\* Date.now() of the server before the first request
ClockStart == 1

NoTranscript == [kind |-> "missing", length |-> 0]

NoInterview ==
  [id |-> Null, studyId |-> Null, transcript |-> NoTranscript, synthesis |-> Null,
   createdAt |-> 0, completedAt |-> 0, status |-> Null]

NoStoredStudy ==
  [id |-> Null, linksEnabled |-> TRUE, interviewCount |-> 0, isLocked |-> FALSE]

\* a study as POST /api/studies stores it
NewStoredStudy(id, linksEnabled) ==
  [id |-> id, linksEnabled |-> linksEnabled, interviewCount |-> 0, isLocked |-> FALSE]

\* keys 'interview:<id>', 'study-interviews:<studyId>', 'all-interviews',
\* 'study:<id>'
EmptyKV ==
  [interviews |-> [i \in InterviewIds |-> NoInterview],
   index |-> [s \in Studies |-> {}],
   all |-> {},
   studies |-> [s \in Studies |-> NoStoredStudy]]

\* the storage a deployment starts from: study-a was created by the
\* researcher, study-b is a token-only study or a stored one, its links
\* enabled or disabled
InitialKVs ==
  {[EmptyKV EXCEPT !.studies =
      [s \in Studies |-> IF s = "study-a" THEN NewStoredStudy(s, TRUE) ELSE b]]
     : b \in {NoStoredStudy, NewStoredStudy("study-b", TRUE),
              NewStoredStudy("study-b", FALSE)}}

\* ---- credentials of a request
NoToken == [kind |-> "none", studyId |-> Null]

Tokens ==
  {NoToken, [kind |-> "expired", studyId |-> "study-a"],
   [kind |-> "forged", studyId |-> "study-a"]}
  \cup {[kind |-> "valid", studyId |-> s] : s \in Studies}

NoAuth == [valid |-> FALSE, studyId |-> Null, isAdmin |-> FALSE]

\* what a request carries: an Authorization header and/or an admin session
\* cookie
Credentials ==
  {[token |-> tk, adminSession |-> FALSE] : tk \in Tokens}
  \cup {[token |-> tk, adminSession |-> TRUE]
          : tk \in {tk \in Tokens : tk.kind # "valid"}}

\* study is what getStudy(payload.studyId) returned
verifyParticipantToken(token, adminSession, study) ==
  IF token.kind = "valid"
    THEN IF study.id # Null /\ study.linksEnabled = FALSE
           THEN NoAuth
           ELSE [valid |-> TRUE, studyId |-> token.studyId, isAdmin |-> FALSE]
  ELSE IF token.kind = "expired" THEN NoAuth
  ELSE IF adminSession
    THEN [valid |-> TRUE, studyId |-> Null, isAdmin |-> TRUE]
  ELSE NoAuth

\* ---- request bodies of POST /api/interviews/save
NoBody ==
  [id |-> Null, studyId |-> Null, transcript |-> NoTranscript, synthesis |-> Null,
   createdAt |-> 0, completedAt |-> 0, status |-> Null]

Messages == [kind |-> "array", length |-> 1]

\* a completedAt a client sends, before every server time
ClientCompletedAt == 0 - 5

\* bodies that pass validation; createdAt 0 stands for an absent createdAt,
\* the others lie before, at and after the server time now
ValidBodies(now) ==
  {[id |-> i, studyId |-> s, transcript |-> Messages, synthesis |-> y,
    createdAt |-> 0, completedAt |-> now, status |-> "completed"]
     : i \in InterviewIds, s \in Studies, y \in {Null, "synthesis"}}
  \cup
  {[id |-> "int-1", studyId |-> "study-a", transcript |-> Messages,
    synthesis |-> Null, createdAt |-> c, completedAt |-> ClientCompletedAt,
    status |-> "in_progress"]
     : c \in {now - 1, now, now + 1}}

AnyValidBody ==
  [id |-> "int-2", studyId |-> "study-a", transcript |-> Messages,
   synthesis |-> Null, createdAt |-> 0, completedAt |-> 0, status |-> "completed"]

\* bodies that fail one validation each
InvalidBodies ==
  {[AnyValidBody EXCEPT !.id = Null],
   [AnyValidBody EXCEPT !.studyId = Null],
   [AnyValidBody EXCEPT !.transcript = NoTranscript],
   [AnyValidBody EXCEPT !.transcript = [kind |-> "string", length |-> 1]],
   [AnyValidBody EXCEPT !.transcript = [kind |-> "array", length |-> 0]],
   [AnyValidBody EXCEPT !.studyId = BadFormat],
   [AnyValidBody EXCEPT !.id = BadFormat]}

\* ---- responses
NoResp ==
  [status |-> 0, success |-> FALSE, warning |-> FALSE, id |-> Null,
   error |-> Null, collaboratorCalled |-> FALSE, synthesis |-> Null,
   interviewCount |-> 0]

ErrorResponse(status, error) == [NoResp EXCEPT !.status = status, !.error = error]

\* NextResponse.json without a status option answers 200
NotPersistedResponse_Unavailable(id) == ErrorResponse(503, "storage")

NotPersistedResponse(id) ==
  [NoResp EXCEPT !.status = 200, !.success = FALSE, !.warning = TRUE, !.id = id]

SavedResponse(id) == [NoResp EXCEPT !.status = 200, !.success = TRUE, !.id = id]

\* the studyId check of the save route
StudyIdMismatch_Skipped(auth, clientData) == FALSE

StudyIdMismatch(auth, clientData) ==
  /\ ~auth.isAdmin
  /\ auth.studyId # Null
  /\ clientData.studyId # Null
  /\ auth.studyId # clientData.studyId

\* the early return of the save route: its response, NoResp if there is none
SaveRejection(auth, clientData) ==
  IF ~auth.valid THEN ErrorResponse(401, "auth")
  ELSE IF StudyIdMismatch(auth, clientData) THEN ErrorResponse(403, "mismatch")
  ELSE IF \/ clientData.id = Null
          \/ clientData.studyId = Null
          \/ clientData.transcript.kind = "missing"
    THEN ErrorResponse(400, "missing")
  ELSE IF clientData.transcript.kind # "array" \/ clientData.transcript.length = 0
    THEN ErrorResponse(400, "transcript")
  ELSE IF ~ValidFormat(clientData.studyId) THEN ErrorResponse(400, "studyId")
  ELSE IF ~ValidFormat(clientData.id) THEN ErrorResponse(400, "id")
  ELSE NoResp

\* mutant: one synthesis is enough
aggregateSynthesis_AtLeastOne(available, studyId, study, interviews, provider) ==
  LET syntheses == {i \in interviews : i.synthesis # Null}
  IN IF ~available THEN ErrorResponse(503, "storage")
     ELSE IF studyId = Null THEN ErrorResponse(400, "missing")
     ELSE IF study.id = Null THEN ErrorResponse(404, "study")
     ELSE IF Cardinality(interviews) < 2 THEN ErrorResponse(400, "insufficient")
     ELSE IF Cardinality(syntheses) < 1 THEN ErrorResponse(400, "insufficient")
     ELSE IF provider = "unconfigured" THEN ErrorResponse(500, "failed")
     ELSE [NoResp EXCEPT !.status = 200,
                         !.collaboratorCalled = TRUE,
                         !.synthesis = IF provider = "answered"
                                         THEN "aggregate" ELSE "placeholder",
                         !.interviewCount = Cardinality(interviews)]

\* mutant: the client's timestamps and status are stored
buildInterview_TrustClient(clientData, now) ==
  [id |-> clientData.id, studyId |-> clientData.studyId,
   transcript |-> clientData.transcript, synthesis |-> clientData.synthesis,
   createdAt |-> IF clientData.createdAt # 0 THEN clientData.createdAt ELSE now,
   completedAt |-> clientData.completedAt,
   status |-> clientData.status]

\* the interview the save route builds
buildInterview(clientData, now) ==
  [id |-> clientData.id, studyId |-> clientData.studyId,
   transcript |-> clientData.transcript, synthesis |-> clientData.synthesis,
   createdAt |-> IF clientData.createdAt # 0 /\ clientData.createdAt < now
                   THEN clientData.createdAt ELSE now,
   completedAt |-> now,
   status |-> "completed"]

\* smembers of the study's index, get of each id, nulls filtered out
getStudyInterviews(k, studyId) ==
  {k.interviews[i] : i \in k.index[studyId]} \ {NoInterview}

(***************************************************************************)
(* lib/ai.ts: cleanJSON.  A text is a sequence of characters; a code-fence *)
(* marker is one element ("fence-json" or "fence"), the double quote is "q", *)
(* any other printable character is "a".                                   *)
(***************************************************************************)
MaxProse == 2

Whitespace == {" ", "\n"}

RECURSIVE SeqsUpTo(_, _)
SeqsUpTo(S, n) ==
  IF n = 0 THEN {<<>>}
  ELSE LET shorter == SeqsUpTo(S, n - 1)
       IN  shorter \cup {Append(s, c) : s \in shorter, c \in S}

\* text.replace(/<fence>\s*/g, empty): every marker goes with the whitespace after it
RECURSIVE replaceFence(_, _, _)
replaceFence(text, fence, skipping) ==
  IF text = <<>> THEN <<>>
  ELSE IF Head(text) = fence THEN replaceFence(Tail(text), fence, TRUE)
  ELSE IF skipping /\ Head(text) \in Whitespace
         THEN replaceFence(Tail(text), fence, TRUE)
  ELSE <<Head(text)>> \o replaceFence(Tail(text), fence, FALSE)

RECURSIVE trimStart(_)
trimStart(text) ==
  IF text # <<>> /\ Head(text) \in Whitespace THEN trimStart(Tail(text)) ELSE text

RECURSIVE trimEnd(_)
trimEnd(text) ==
  IF text # <<>> /\ text[Len(text)] \in Whitespace
    THEN trimEnd(SubSeq(text, 1, Len(text) - 1))
    ELSE text

trim(text) == trimEnd(trimStart(text))

\* String.prototype.indexOf, 1-based; 0 when the character does not occur
indexOf(text, c) ==
  IF \E i \in 1..Len(text) : text[i] = c
    THEN CHOOSE i \in 1..Len(text) :
           /\ text[i] = c
           /\ \A j \in 1..(i - 1) : text[j] # c
    ELSE 0

\* the for loop of cleanJSON: the index at which depth returns to 0, else 0
RECURSIVE balancedEnd(_, _, _, _, _)
balancedEnd(text, i, depth, open, close) ==
  IF i > Len(text) THEN 0
  ELSE LET d == depth + (IF text[i] = open THEN 1 ELSE 0)
                      - (IF text[i] = close THEN 1 ELSE 0)
       IN  IF d = 0 THEN i ELSE balancedEnd(text, i + 1, d, open, close)

cleanJSON(text) ==
  IF text = <<>> THEN <<"{", "}">>
  ELSE
    LET cleaned == trim(replaceFence(replaceFence(text, "fence-json", FALSE), "fence", FALSE))
        firstBracket == indexOf(cleaned, "[")
        firstBrace == indexOf(cleaned, "{")
        bracketEnd == IF firstBracket # 0 /\ (firstBrace = 0 \/ firstBracket < firstBrace)
                        THEN balancedEnd(cleaned, firstBracket, 0, "[", "]")
                        ELSE 0
        braceEnd == IF firstBrace # 0
                      THEN balancedEnd(cleaned, firstBrace, 0, "{", "}")
                      ELSE 0
    IN  IF bracketEnd # 0 THEN SubSeq(cleaned, firstBracket, bracketEnd)
        ELSE IF braceEnd # 0 THEN SubSeq(cleaned, firstBrace, braceEnd)
        ELSE cleaned

\* well-formed JSON values a collaborator can answer with
JsonTexts ==
  { <<"{", "}">>,
    <<"[", "]">>,
    <<"{", "q", "a", "q", ":", "q", "a", "q", "}">>,
    <<"[", "q", "a", "q", ",", "[", "]", "]">>,
    <<"{", "q", "a", "q", ":", "[", "{", "}", "]", "}">>,
    <<"[", "{", "q", "a", "q", ":", "[", "]", "}", "]">>,
    <<"{", "q", "a", "q", ":", "q", "{", "a", "}", "q", "}">>,
    <<"{", "q", "a", "q", ":", "q", "}", "q", "}">>,
    <<"{", "q", "a", "q", ":", "q", "{", "q", "}">>,
    <<"[", "q", "]", "q", "]">>,
    <<"[", "q", "[", "q", "]">> }

\* what the prose around the JSON value is written with
ProseChars == {"a", "[", "]", "{"}

Prose == SeqsUpTo(ProseChars, MaxProse)

\* the code-fence markers around the value: none, a json fence, a bare fence
FenceWraps ==
  { [open |-> <<>>, close |-> <<>>],
    [open |-> <<"fence-json", "\n">>, close |-> <<"\n", "fence">>],
    [open |-> <<"fence", "\n">>, close |-> <<"\n", "fence">>] }

Payload(before, wrap, json, after) ==
  before \o wrap.open \o json \o wrap.close \o after

\* the calls cleanJSON(response.text) for payloads with the given prose
CleanCalls(prose) ==
  { [fn |-> "cleanJSON", done |-> FALSE, before |-> b, wrap |-> w, json |-> j,
     after |-> a, text |-> Payload(b, w, j, a), result |-> <<>>, again |-> <<>>] :
      b \in prose, w \in FenceWraps, j \in JsonTexts, a \in prose }

(***************************************************************************)
(* providers/gemini.ts, providers/claude.ts: synthesizeAggregate, and the  *)
(* result the aggregate route builds from it.  A field of the result is    *)
(* described by its state: its key is absent, its value is null, it is an  *)
(* empty list or string, or it is populated.                               *)
(***************************************************************************)
FieldStates == {"absent", "null", "empty", "populated"}

Providers == {"gemini", "claude"}

\* lib/ai.ts: commonThemes: [], keyFindings: ['Analysis pending...'], bottomLine: '...'
defaultAggregateSynthesisResult ==
  [commonThemes |-> "empty", keyFindings |-> "populated", bottomLine |-> "populated"]

\* what the collaborator's call ends with: it throws, it answers with something
\* that is no JSON text (Gemini) or holds no tool_use block (Claude), or it
\* answers with an object
CollaboratorOutcomes ==
  { [kind |-> k, commonThemes |-> "absent", keyFindings |-> "absent",
     bottomLine |-> "absent"] : k \in {"throws", "unusable"} }
  \cup
  { [kind |-> "object", commonThemes |-> c, keyFindings |-> f, bottomLine |-> b] :
      c \in FieldStates, f \in FieldStates, b \in FieldStates }

synthesizeAggregate(provider, outcome) ==
  IF outcome.kind = "object"
    THEN [commonThemes |-> outcome.commonThemes,
          keyFindings |-> outcome.keyFindings,
          bottomLine |-> outcome.bottomLine]
    ELSE defaultAggregateSynthesisResult

\* { studyId, interviewCount, ...aggregateResult, generatedAt }
fullResult(studyId, interviewCount, aggregateResult, now) ==
  [studyId |-> studyId, interviewCount |-> interviewCount,
   commonThemes |-> aggregateResult.commonThemes,
   keyFindings |-> aggregateResult.keyFindings,
   bottomLine |-> aggregateResult.bottomLine,
   generatedAt |-> now]

SynthesisCalls ==
  { [fn |-> "synthesizeAggregate", done |-> FALSE, provider |-> p, outcome |-> o,
     studyId |-> s, status |-> 0,
     synthesis |-> fullResult(Null, 0, defaultAggregateSynthesisResult, 0)] :
      p \in Providers, o \in CollaboratorOutcomes, s \in Studies }

\* outcomes of getInterviewProvider and provider.synthesizeAggregate: the
\* constructor throws without an API key, the collaborator answers, or the
\* call fails and the provider returns defaultAggregateSynthesisResult
ProviderOutcomes == {"unconfigured", "answered", "failed"}

(***************************************************************************)
(* app/api/studies/[id]/generate-followup/route.ts                         *)
(***************************************************************************)
\* the admin session cookie: none, one that does not verify, a valid one
Sessions == {"none", "expired", "valid"}

\* the synthesis of the request body: a list field is described by its
\* state, as above ("absent", "null", "empty", "populated")
NoSynthesis == [present |-> FALSE, keyFindings |-> "absent", commonThemes |-> "absent"]

FollowupBodies ==
  {NoSynthesis}
  \cup { [present |-> TRUE, keyFindings |-> f, commonThemes |-> c] :
           f \in FieldStates, c \in {"absent", "empty", "populated"} }

NoDraft ==
  [present |-> FALSE, suggestions |-> Null, topicAreas |-> Null,
   parentStudyId |-> Null, generatedFrom |-> Null]

NoFollowupResponse == [status |-> 0, error |-> Null, followUpConfig |-> NoDraft]

\* !synthesis || !synthesis.keyFindings?.length
InvalidSynthesis(synthesis) ==
  \/ ~synthesis.present
  \/ synthesis.keyFindings \in {"absent", "null", "empty"}

followUpConfig(parentStudy, synthesis, provider) ==
  [present |-> TRUE,
   suggestions |-> IF provider = "answered" THEN "collaborator" ELSE "fallback",
   topicAreas |-> IF synthesis.commonThemes = "populated" THEN "themes" ELSE "parent",
   parentStudyId |-> parentStudy.id,
   generatedFrom |-> "synthesis"]

generateFollowup_NoValidation(session, available, parentStudy, synthesis, provider) ==
  IF session = "none" THEN [NoFollowupResponse EXCEPT !.status = 401, !.error = "auth"]
  ELSE IF session = "expired"
         THEN [NoFollowupResponse EXCEPT !.status = 401, !.error = "session"]
  ELSE IF ~available THEN [NoFollowupResponse EXCEPT !.status = 503, !.error = "storage"]
  ELSE IF parentStudy.id = Null
         THEN [NoFollowupResponse EXCEPT !.status = 404, !.error = "study"]
  ELSE IF provider = "unconfigured"
         THEN [NoFollowupResponse EXCEPT !.status = 500, !.error = "failed"]
  ELSE [NoFollowupResponse EXCEPT
          !.status = 200,
          !.followUpConfig = followUpConfig(parentStudy, synthesis, provider)]

\* POST: the response of the handler
generateFollowup(session, available, parentStudy, synthesis, provider) ==
  IF session = "none" THEN [NoFollowupResponse EXCEPT !.status = 401, !.error = "auth"]
  ELSE IF session = "expired"
         THEN [NoFollowupResponse EXCEPT !.status = 401, !.error = "session"]
  ELSE IF ~available THEN [NoFollowupResponse EXCEPT !.status = 503, !.error = "storage"]
  ELSE IF parentStudy.id = Null
         THEN [NoFollowupResponse EXCEPT !.status = 404, !.error = "study"]
  ELSE IF InvalidSynthesis(synthesis)
         THEN [NoFollowupResponse EXCEPT !.status = 400, !.error = "synthesis"]
  ELSE IF provider = "unconfigured"
         THEN [NoFollowupResponse EXCEPT !.status = 500, !.error = "failed"]
  ELSE [NoFollowupResponse EXCEPT
          !.status = 200,
          !.followUpConfig = followUpConfig(parentStudy, synthesis, provider)]

\* provider.generateFollowupStudy is reached only on the last branch
collaboratorInvoked(resp) == resp.status = 200

FollowupCalls ==
  { [fn |-> "generateFollowup", done |-> FALSE, session |-> s, available |-> a,
     studyId |-> id, synthesis |-> b, provider |-> p, storage |-> EmptyKV,
     collaboratorCalled |-> FALSE, resp |-> NoFollowupResponse] :
      s \in Sessions, a \in BOOLEAN, id \in Studies, b \in FollowupBodies,
      p \in ProviderOutcomes }

(***************************************************************************)
(* Concurrent requests on one study: interview saves, study updates (PUT   *)
(* /api/studies/[id]) and study deletions (DELETE /api/studies/[id])       *)
(***************************************************************************)
MaxProcs == 3

Procs == 1..MaxProcs

\* the study the concurrent requests are about
RaceStudy == "study-a"

\* every request comes from a session of its own
SessionIds == <<"int-1", "int-2", "int-3", "int-4">>

RaceInterviewIds == {SessionIds[p] : p \in Procs}

NoProc ==
  [kind |-> "none", pc |-> "idle", id |-> Null, study |-> NoStoredStudy,
   linksEnabled |-> TRUE, confirmed |-> FALSE, status |-> 0]

NoProcs == [p \in Procs |-> NoProc]

\* PUT: study.interviewCount > 0 && !confirmed
requiresConfirmation(study, confirmed) == study.interviewCount > 0 /\ ~confirmed

\* PUT: { ...study, config: { ...study.config, ...config }, updatedAt }
updatedStudy(study, linksEnabled) == [study EXCEPT !.linksEnabled = linksEnabled]

\* no library function is being applied
NoCall == [fn |-> "none", done |-> FALSE]

NoRequest ==
  [kind |-> "none", pc |-> "idle", auth |-> NoAuth, body |-> NoBody,
   interview |-> NoInterview, study |-> NoStoredStudy, interviews |-> {},
   resp |-> NoResp]

\* the aggregate route after verifyAuth: study is what getStudy returned and
\* interviews what getStudyInterviews returned
aggregateSynthesis(available, studyId, study, interviews, provider) ==
  LET syntheses == {i \in interviews : i.synthesis # Null}
  IN IF ~available THEN ErrorResponse(503, "storage")
     ELSE IF studyId = Null THEN ErrorResponse(400, "missing")
     ELSE IF study.id = Null THEN ErrorResponse(404, "study")
     ELSE IF Cardinality(interviews) < 2 THEN ErrorResponse(400, "insufficient")
     ELSE IF Cardinality(syntheses) < 2 THEN ErrorResponse(400, "insufficient")
     ELSE IF provider = "unconfigured" THEN ErrorResponse(500, "failed")
     ELSE [NoResp EXCEPT !.status = 200,
                         !.collaboratorCalled = TRUE,
                         !.synthesis = IF provider = "answered"
                                         THEN "aggregate" ELSE "placeholder",
                         !.interviewCount = Cardinality(interviews)]

VARIABLES
  store,             \* the zustand store
  initialized,       \* useState: the greeting effect has run
  showFinishOption,  \* useState: the "Finish early" button is offered
  greeting,          \* the getInterviewGreeting call: "none", "awaiting", "done", "stale"
  turn,              \* the handleSend invocation suspended at its await
  response,          \* the response the last handleSend received
  kv,                \* the Vercel KV store behind lib/kv.ts
  request,           \* the API request the server is processing, with its locals
  clock,             \* the server's Date.now()
  call,              \* a library function being applied: argument and result
  procs              \* concurrent requests on one study: position and locals

sessionVars == <<store, initialized, showFinishOption, greeting, turn, response>>

serverVars == <<kv, request, clock>>

libVars == <<call, procs>>

vars == <<sessionVars, serverVars, libVars>>

NoTurn == [status |-> "idle", text |-> Null, currentPhase |-> Null,
           rawContext |-> <<>>, outcome |-> "none"]

UserMessages(h) == {i \in DOMAIN h : h[i].role = "user"}

\* mutant: the option follows the current phase
ShowFinishEffect_NotSticky(s) ==
  showFinishOption' = (s.questionProgress.currentPhase # "background")

\* useEffect on questionProgress.currentPhase, run after the render that
\* follows a store update
ShowFinishEffect(s) ==
  showFinishOption' =
    (showFinishOption \/ s.questionProgress.currentPhase # "background")

Init ==
  /\ store = InitialStore
  /\ initialized = FALSE
  /\ showFinishOption = FALSE
  /\ greeting = "none"
  /\ turn = NoTurn
  /\ response = NoResponse
  /\ kv = EmptyKV
  /\ request = NoRequest
  /\ clock = ClockStart
  /\ call = NoCall
  /\ procs = NoProcs

\* the researcher's study reaches the store
SetStudyConfig ==
  /\ store.studyConfig.id = Null
  /\ \E config \in StudyConfigs : store' = setStudyConfig(store, config)
  /\ UNCHANGED <<initialized, showFinishOption, greeting, turn, response>>
  /\ UNCHANGED <<serverVars, libVars>>

\* session start: the profile is built from the study's schema
InitializeProfile ==
  /\ store.studyConfig.id # Null
  /\ store.participantProfile.id = Null
  /\ store' = initializeProfile(store, store.studyConfig.profileSchema)
  /\ UNCHANGED <<initialized, showFinishOption, greeting, turn, response>>
  /\ UNCHANGED <<serverVars, libVars>>

\* the greeting effect up to its await
Initialize ==
  /\ store.participantProfile.id # Null
  /\ ~(store.studyConfig.id = Null \/ initialized \/ Len(store.interviewHistory) > 0)
  /\ initialized' = TRUE
  /\ store' = setAiThinking(store, TRUE)
  /\ greeting' = "awaiting"
  /\ ShowFinishEffect(store')
  /\ UNCHANGED <<turn, response>>
  /\ UNCHANGED <<serverVars, libVars>>

\* getInterviewGreeting resolved
InitializeResolved ==
  /\ greeting = "awaiting"
  /\ store' = setAiThinking(
                addMessage(store, [role |-> "ai", content |-> GreetingMessage]),
                FALSE)
  /\ greeting' = "done"
  /\ ShowFinishEffect(store')
  /\ UNCHANGED <<initialized, turn, response>>
  /\ UNCHANGED <<serverVars, libVars>>

\* getInterviewGreeting rejected
InitializeRejected ==
  /\ greeting = "awaiting"
  /\ store' = setAiThinking(store, FALSE)
  /\ greeting' = "done"
  /\ ShowFinishEffect(store')
  /\ UNCHANGED <<initialized, turn, response>>
  /\ UNCHANGED <<serverVars, libVars>>

\* getInterviewGreeting settled after the effect's cleanup ran: setInitialized
\* changes a dependency of the effect, the re-render runs the cleanup of the
\* call still awaiting, and with mounted = false that call neither appends
\* the greeting nor calls setAiThinking(false)
InitializeUnmounted ==
  /\ greeting = "awaiting"
  /\ greeting' = "stale"
  /\ ShowFinishEffect(store)
  /\ UNCHANGED <<store, initialized, turn, response>>
  /\ UNCHANGED <<serverVars, libVars>>

\* mutant: handleSend reachable while isAiThinking
HandleSend_Ungated ==
  /\ initialized
  /\ ~store.questionProgress.isComplete
  /\ store.studyConfig.id # Null
  /\ Cardinality(UserMessages(store.interviewHistory)) < MaxTurns
  /\ LET text == UserText(Cardinality(UserMessages(store.interviewHistory)) + 1)
     IN /\ store' = setAiThinking(
                      appendContext(
                        addMessage(store, [role |-> "user", content |-> text]),
                        text),
                      TRUE)
        /\ turn' = [status |-> "awaiting",
                    text |-> text,
                    currentPhase |-> store.questionProgress.currentPhase,
                    rawContext |-> store.participantProfile.rawContext,
                    outcome |-> "none"]
  /\ response' = NoResponse
  /\ ShowFinishEffect(store')
  /\ UNCHANGED <<initialized, greeting>>
  /\ UNCHANGED <<serverVars, libVars>>

\* handleSend up to its await; the input row is rendered only while the
\* interview is not complete and is disabled while isAiThinking
HandleSend ==
  /\ initialized
  /\ ~store.questionProgress.isComplete
  /\ ~store.isAiThinking
  /\ store.studyConfig.id # Null
  /\ Cardinality(UserMessages(store.interviewHistory)) < MaxTurns
  /\ LET text == UserText(Cardinality(UserMessages(store.interviewHistory)) + 1)
     IN /\ store' = setAiThinking(
                      appendContext(
                        addMessage(store, [role |-> "user", content |-> text]),
                        text),
                      TRUE)
        /\ turn' = [status |-> "awaiting",
                    text |-> text,
                    currentPhase |-> store.questionProgress.currentPhase,
                    rawContext |-> store.participantProfile.rawContext,
                    outcome |-> "none"]
  /\ response' = NoResponse
  /\ ShowFinishEffect(store')
  /\ UNCHANGED <<initialized, greeting>>
  /\ UNCHANGED <<serverVars, libVars>>

RECURSIVE ApplyProfileUpdates(_, _)
\* response.profileUpdates.forEach(update => updateProfileField(...))
ApplyProfileUpdates(s, updates) ==
  IF updates = <<>> THEN s
  ELSE ApplyProfileUpdates(
         updateProfileField(s, Head(updates).fieldId, Head(updates).value,
                            Head(updates).status),
         Tail(updates))

\* mutant: the participant's text is appended in every phase
handleSendTry_AnyPhase(s, t, r) ==
  LET s1 == IF Len(r.profileUpdates) > 0
              THEN LET u == ApplyProfileUpdates(s, r.profileUpdates)
                       existingContext == t.rawContext
                       newContext ==
                         existingContext
                         \o (IF existingContext # <<>> THEN <<"\n">> ELSE <<>>)
                         \o <<t.text>>
                   IN setProfileRawContext(u, newContext)
              ELSE s
      s2 == IF r.phaseTransition # Null
              THEN setInterviewPhase(s1, r.phaseTransition) ELSE s1
      s3 == IF r.questionAddressed # NoQuestion
              THEN markQuestionAsked(s2, r.questionAddressed) ELSE s2
      s4 == addMessage(s3, [role |-> "ai", content |-> r.message])
  IN IF r.shouldConclude THEN completeInterview(s4) ELSE s4

\* the try block of handleSend after the await; t is the suspended call
\* with the values its closure captured
handleSendTry(s, t, r) ==
  LET s1 == IF Len(r.profileUpdates) > 0
              THEN LET u == ApplyProfileUpdates(s, r.profileUpdates)
                   IN IF t.currentPhase = "background"
                        THEN LET existingContext == t.rawContext
                                 newContext ==
                                   existingContext
                                   \o (IF existingContext # <<>> THEN <<"\n">> ELSE <<>>)
                                   \o <<t.text>>
                             IN setProfileRawContext(u, newContext)
                        ELSE u
              ELSE s
      s2 == IF r.phaseTransition # Null
              THEN setInterviewPhase(s1, r.phaseTransition) ELSE s1
      s3 == IF r.questionAddressed # NoQuestion
              THEN markQuestionAsked(s2, r.questionAddressed) ELSE s2
      s4 == addMessage(s3, [role |-> "ai", content |-> r.message])
  IN IF r.shouldConclude THEN completeInterview(s4) ELSE s4


\* mutant: the catch block only logs
handleSendCatch_LogOnly(s) == s

\* the catch block of handleSend
handleSendCatch(s) == addMessage(s, [role |-> "ai", content |-> CatchMessage])

\* the collaborator answered and the provider built a response from it
HandleSendResolved ==
  /\ turn.status = "awaiting"
  /\ \E parsed \in ParsedPayloads :
       LET r == ProviderResponse(parsed)
       IN /\ store' = setAiThinking(handleSendTry(store, turn, r), FALSE)
          /\ response' = r
  /\ turn' = [turn EXCEPT !.status = "idle", !.outcome = "success"]
  /\ ShowFinishEffect(store')
  /\ UNCHANGED <<initialized, greeting>>
  /\ UNCHANGED <<serverVars, libVars>>

\* the collaborator answered with a questionAddressed outside the study's
\* core questions
HandleSendResolvedUnbounded ==
  /\ turn.status = "awaiting"
  /\ \E parsed \in UnboundedIndexPayloads :
       LET r == ProviderResponse(parsed)
       IN /\ store' = setAiThinking(handleSendTry(store, turn, r), FALSE)
          /\ response' = r
  /\ turn' = [turn EXCEPT !.status = "idle", !.outcome = "success"]
  /\ ShowFinishEffect(store')
  /\ UNCHANGED <<initialized, greeting>>
  /\ UNCHANGED <<serverVars, libVars>>

\* the provider failed (API error, no tool_use block, unparsable output)
\* and returned defaultInterviewResponse
HandleSendProviderFallback ==
  /\ turn.status = "awaiting"
  /\ store' = setAiThinking(handleSendTry(store, turn, defaultInterviewResponse), FALSE)
  /\ response' = defaultInterviewResponse
  /\ turn' = [turn EXCEPT !.status = "idle", !.outcome = "provider-fallback"]
  /\ ShowFinishEffect(store')
  /\ UNCHANGED <<initialized, greeting>>
  /\ UNCHANGED <<serverVars, libVars>>

\* the client request threw
HandleSendRejected ==
  /\ turn.status = "awaiting"
  /\ store' = setAiThinking(handleSendCatch(store), FALSE)
  /\ response' = NoResponse
  /\ turn' = [turn EXCEPT !.status = "idle", !.outcome = "client-throw"]
  /\ ShowFinishEffect(store')
  /\ UNCHANGED <<initialized, greeting>>
  /\ UNCHANGED <<serverVars, libVars>>

\* the "Finish early" button, rendered when showFinishOption && !isComplete
HandleFinishEarly ==
  /\ showFinishOption
  /\ ~store.questionProgress.isComplete
  /\ store' = completeInterview(store)
  /\ ShowFinishEffect(store')
  /\ UNCHANGED <<initialized, greeting, turn, response>>
  /\ UNCHANGED <<serverVars, libVars>>

Next ==
  \/ SetStudyConfig
  \/ InitializeProfile
  \/ Initialize
  \/ InitializeResolved
  \/ InitializeRejected
  \/ InitializeUnmounted
  \/ HandleSend
  \/ HandleSendResolved
  \/ HandleSendProviderFallback
  \/ HandleSendRejected
  \/ HandleFinishEarly

Spec == Init /\ [][Next]_vars

\* the session with every number the collaborator may put in questionAddressed
UnboundedNext ==
  \/ Next
  \/ HandleSendResolvedUnbounded

UnboundedSpec == Init /\ [][UnboundedNext]_vars

\* ======================================================================
\* Server requests, one at a time
\* ======================================================================
\* POST /api/interviews/save up to its first storage call: token check,
\* validation, the interview built with the server's time
SaveRequest ==
  /\ request.pc = "idle"
  /\ clock < ClockStart + MaxSaves
  /\ \E c \in Credentials :
       \E study \in {NoStoredStudy}
                    \cup (IF c.token.kind = "valid"
                            THEN {kv.studies[c.token.studyId]} ELSE {}) :
         \E clientData \in ValidBodies(clock + 1) \cup InvalidBodies :
           LET auth == verifyParticipantToken(c.token, c.adminSession, study)
               rejection == SaveRejection(auth, clientData)
               now == clock + 1
           IN IF rejection # NoResp
                THEN /\ request' = [NoRequest EXCEPT !.kind = "save", !.pc = "done",
                                                     !.auth = auth, !.body = clientData,
                                                     !.resp = rejection]
                     /\ clock' = clock
                ELSE /\ request' = [NoRequest EXCEPT !.kind = "save", !.pc = "ping",
                                                     !.auth = auth, !.body = clientData,
                                                     !.interview = buildInterview(clientData, now)]
                     /\ clock' = now
  /\ UNCHANGED <<kv, sessionVars, libVars>>

\* isKVAvailable: kv.ping() answers or throws
SaveIsKVAvailable ==
  /\ request.kind = "save" /\ request.pc = "ping"
  /\ \E available \in BOOLEAN :
       request' = IF available
                    THEN [request EXCEPT !.pc = "set"]
                    ELSE [request EXCEPT !.pc = "done",
                                         !.resp = NotPersistedResponse(request.interview.id)]
  /\ UNCHANGED <<kv, clock, sessionVars, libVars>>

\* a storage call of saveInterview threw: it returns false, the route 500
SaveInterviewFailed ==
  request' = [request EXCEPT !.pc = "done", !.resp = ErrorResponse(500, "failed")]

\* saveInterview: kv.set('interview:<id>', interview)
SaveInterviewSet ==
  /\ request.kind = "save" /\ request.pc = "set"
  /\ \/ /\ kv' = [kv EXCEPT !.interviews[request.interview.id] = request.interview]
        /\ request' = [request EXCEPT !.pc = "sadd"]
     \/ /\ kv' = kv
        /\ SaveInterviewFailed
  /\ UNCHANGED <<clock, sessionVars, libVars>>

\* saveInterview: kv.sadd('study-interviews:<studyId>', id)
SaveInterviewStudyIndex ==
  /\ request.kind = "save" /\ request.pc = "sadd"
  /\ \/ /\ kv' = [kv EXCEPT !.index[request.interview.studyId] =
                              @ \cup {request.interview.id}]
        /\ request' = [request EXCEPT !.pc = "saddAll"]
     \/ /\ kv' = kv
        /\ SaveInterviewFailed
  /\ UNCHANGED <<clock, sessionVars, libVars>>

\* saveInterview: kv.sadd('all-interviews', id)
SaveInterviewAllIndex ==
  /\ request.kind = "save" /\ request.pc = "saddAll"
  /\ \/ /\ kv' = [kv EXCEPT !.all = @ \cup {request.interview.id}]
        /\ request' = [request EXCEPT !.pc = "incGet"]
     \/ /\ kv' = kv
        /\ SaveInterviewFailed
  /\ UNCHANGED <<clock, sessionVars, libVars>>

\* mutant: a study missing from storage fails the request
IncrementStudyInterviewCountGet_Throws ==
  /\ request.kind = "save" /\ request.pc = "incGet"
  /\ \E study \in {kv.studies[request.interview.studyId], NoStoredStudy} :
       request' = IF study.id = Null
                    THEN [request EXCEPT !.pc = "done",
                                         !.resp = ErrorResponse(500, "failed")]
                    ELSE [request EXCEPT !.pc = "incSet", !.study = study]
  /\ UNCHANGED <<kv, clock, sessionVars, libVars>>

\* incrementStudyInterviewCount: getStudy, null when the study is not
\* stored or the read threw
IncrementStudyInterviewCountGet ==
  /\ request.kind = "save" /\ request.pc = "incGet"
  /\ \E study \in {kv.studies[request.interview.studyId], NoStoredStudy} :
       request' = IF study.id = Null
                    THEN [request EXCEPT !.pc = "lockGet"]
                    ELSE [request EXCEPT !.pc = "incSet", !.study = study]
  /\ UNCHANGED <<kv, clock, sessionVars, libVars>>

\* incrementStudyInterviewCount: saveStudy of the copy read, its count
\* raised by one; a failed write is swallowed
IncrementStudyInterviewCountSave ==
  /\ request.kind = "save" /\ request.pc = "incSet"
  /\ \/ kv' = [kv EXCEPT !.studies[request.interview.studyId] =
                           [request.study EXCEPT !.interviewCount = @ + 1]]
     \/ kv' = kv
  /\ request' = [request EXCEPT !.pc = "lockGet", !.study = NoStoredStudy]
  /\ UNCHANGED <<clock, sessionVars, libVars>>

\* lockStudy: getStudy; nothing to write when the study is missing or locked
LockStudyGet ==
  /\ request.kind = "save" /\ request.pc = "lockGet"
  /\ \E study \in {kv.studies[request.interview.studyId], NoStoredStudy} :
       request' = IF study.id = Null \/ study.isLocked
                    THEN [request EXCEPT !.pc = "done",
                                         !.resp = SavedResponse(request.interview.id)]
                    ELSE [request EXCEPT !.pc = "lockSet", !.study = study]
  /\ UNCHANGED <<kv, clock, sessionVars, libVars>>

\* lockStudy: saveStudy of the copy read with isLocked set; a failed write
\* is swallowed, and the route answers success
LockStudySave ==
  /\ request.kind = "save" /\ request.pc = "lockSet"
  /\ \/ kv' = [kv EXCEPT !.studies[request.interview.studyId] =
                           [request.study EXCEPT !.isLocked = TRUE]]
     \/ kv' = kv
  /\ request' = [request EXCEPT !.pc = "done", !.study = NoStoredStudy,
                                !.resp = SavedResponse(request.interview.id)]
  /\ UNCHANGED <<clock, sessionVars, libVars>>

\* POST /api/synthesis/aggregate: verifyAuth
AggregateRequest ==
  /\ request.pc = "idle"
  /\ \E authorized \in BOOLEAN, studyId \in Studies \cup {Null} :
       request' =
         IF authorized
           THEN [NoRequest EXCEPT !.kind = "aggregate", !.pc = "aggregate",
                                  !.auth = [valid |-> TRUE, studyId |-> Null,
                                            isAdmin |-> TRUE],
                                  !.body = [NoBody EXCEPT !.studyId = studyId]]
           ELSE [NoRequest EXCEPT !.kind = "aggregate", !.pc = "done",
                                  !.body = [NoBody EXCEPT !.studyId = studyId],
                                  !.resp = ErrorResponse(401, "auth")]
  /\ UNCHANGED <<kv, clock, sessionVars, libVars>>

\* the aggregate route after verifyAuth; a storage read that throws makes
\* getStudy return null and getStudyInterviews return []
AggregateSynthesis ==
  /\ request.kind = "aggregate" /\ request.pc = "aggregate"
  /\ LET studyId == request.body.studyId
     IN \E available \in BOOLEAN, provider \in ProviderOutcomes :
         \E study \in {NoStoredStudy}
                      \cup (IF studyId = Null THEN {} ELSE {kv.studies[studyId]}) :
           \E interviews \in {{}}
                             \cup (IF studyId = Null THEN {}
                                   ELSE {getStudyInterviews(kv, studyId)}) :
             request' = [request EXCEPT
                           !.pc = "done",
                           !.study = study,
                           !.interviews = interviews,
                           !.resp = aggregateSynthesis(available, studyId, study,
                                                       interviews, provider)]
  /\ UNCHANGED <<kv, clock, sessionVars, libVars>>

\* the handler returned its response; its locals are gone
ResponseSent ==
  /\ request.pc = "done"
  /\ request' = NoRequest
  /\ UNCHANGED <<kv, clock, sessionVars, libVars>>

ServerInit ==
  /\ store = InitialStore
  /\ initialized = FALSE
  /\ showFinishOption = FALSE
  /\ greeting = "none"
  /\ turn = NoTurn
  /\ response = NoResponse
  /\ kv \in InitialKVs
  /\ request = NoRequest
  /\ clock = ClockStart
  /\ call = NoCall
  /\ procs = NoProcs

ServerNext ==
  \/ SaveRequest
  \/ SaveIsKVAvailable
  \/ SaveInterviewSet
  \/ SaveInterviewStudyIndex
  \/ SaveInterviewAllIndex
  \/ IncrementStudyInterviewCountGet
  \/ IncrementStudyInterviewCountSave
  \/ LockStudyGet
  \/ LockStudySave
  \/ AggregateRequest
  \/ AggregateSynthesis
  \/ ResponseSent

ServerSpec == ServerInit /\ [][ServerNext]_vars

(***************************************************************************)
(* Applying cleanJSON to a collaborator's payload, and again to its result *)
(***************************************************************************)
CleanInit ==
  /\ store = InitialStore
  /\ initialized = FALSE
  /\ showFinishOption = FALSE
  /\ greeting = "none"
  /\ turn = NoTurn
  /\ response = NoResponse
  /\ kv = EmptyKV
  /\ request = NoRequest
  /\ clock = ClockStart
  /\ call \in CleanCalls(Prose)
  /\ procs = NoProcs

CleanJSON ==
  /\ call.fn = "cleanJSON"
  /\ ~call.done
  /\ call' = [call EXCEPT !.done = TRUE,
                          !.result = cleanJSON(call.text),
                          !.again = cleanJSON(cleanJSON(call.text))]
  /\ UNCHANGED <<sessionVars, serverVars, procs>>

CleanNext == CleanJSON

CleanSpec == CleanInit /\ [][CleanNext]_vars

(***************************************************************************)
(* The aggregate route from the provider's call on, for every outcome of   *)
(* the collaborator                                                        *)
(***************************************************************************)
SynthesisInit ==
  /\ store = InitialStore
  /\ initialized = FALSE
  /\ showFinishOption = FALSE
  /\ greeting = "none"
  /\ turn = NoTurn
  /\ response = NoResponse
  /\ kv = EmptyKV
  /\ request = NoRequest
  /\ clock = ClockStart
  /\ call \in SynthesisCalls
  /\ procs = NoProcs

SynthesizeAggregate ==
  /\ call.fn = "synthesizeAggregate"
  /\ ~call.done
  /\ call' = [call EXCEPT
                !.done = TRUE,
                !.status = 200,
                !.synthesis = fullResult(call.studyId, 2,
                                synthesizeAggregate(call.provider, call.outcome),
                                clock)]
  /\ UNCHANGED <<sessionVars, serverVars, procs>>

SynthesisNext == SynthesizeAggregate

SynthesisSpec == SynthesisInit /\ [][SynthesisNext]_vars

(***************************************************************************)
(* The follow-up generation route                                          *)
(***************************************************************************)
FollowupInit ==
  /\ store = InitialStore
  /\ initialized = FALSE
  /\ showFinishOption = FALSE
  /\ greeting = "none"
  /\ turn = NoTurn
  /\ response = NoResponse
  /\ kv \in InitialKVs
  /\ request = NoRequest
  /\ clock = ClockStart
  /\ call \in {[c EXCEPT !.storage = kv] : c \in FollowupCalls}
  /\ procs = NoProcs

GenerateFollowup ==
  /\ call.fn = "generateFollowup"
  /\ ~call.done
  /\ LET resp == generateFollowup(call.session, call.available,
                                  kv.studies[call.studyId], call.synthesis,
                                  call.provider)
     IN  call' = [call EXCEPT !.done = TRUE,
                              !.resp = resp,
                              !.collaboratorCalled = collaboratorInvoked(resp)]
  /\ UNCHANGED <<sessionVars, serverVars, procs>>

FollowupNext == GenerateFollowup

FollowupSpec == FollowupInit /\ [][FollowupNext]_vars

(***************************************************************************)
(* Concurrent requests on RaceStudy.  Every storage call is one step; the  *)
(* storage answers every call.                                             *)
(***************************************************************************)
RaceVars == <<sessionVars, request, clock, call>>

RaceInit ==
  /\ store = InitialStore
  /\ initialized = FALSE
  /\ showFinishOption = FALSE
  /\ greeting = "none"
  /\ turn = NoTurn
  /\ response = NoResponse
  /\ kv = [EmptyKV EXCEPT !.studies[RaceStudy] = NewStoredStudy(RaceStudy, TRUE),
                          !.interviews = [i \in RaceInterviewIds |-> NoInterview]]
  /\ request = NoRequest
  /\ clock = ClockStart
  /\ call = NoCall
  /\ procs = NoProcs

\* POST /api/interviews/save with a participant token of the study:
\* verifyParticipantToken, whose study lookup answers the record or null
RaceSaveVerify ==
  \E p \in Procs, study \in {kv.studies[RaceStudy], NoStoredStudy} :
    /\ procs[p].kind = "none"
    /\ LET auth == verifyParticipantToken([kind |-> "valid", studyId |-> RaceStudy],
                                          FALSE, study)
           id == SessionIds[p]
       IN  procs' = [procs EXCEPT ![p] =
                       IF auth.valid
                         THEN [NoProc EXCEPT !.kind = "save", !.pc = "set", !.id = id]
                         ELSE [NoProc EXCEPT !.kind = "save", !.pc = "done",
                                             !.id = id, !.status = 401]]
    /\ UNCHANGED <<kv, RaceVars>>

\* saveInterview: kv.set('interview:<id>', interview)
RaceSaveInterviewSet ==
  \E p \in Procs :
    /\ procs[p].kind = "save" /\ procs[p].pc = "set"
    /\ kv' = [kv EXCEPT !.interviews[procs[p].id] =
                [NoInterview EXCEPT !.id = procs[p].id, !.studyId = RaceStudy,
                                    !.status = "completed"]]
    /\ procs' = [procs EXCEPT ![p].pc = "sadd"]
    /\ UNCHANGED RaceVars

\* saveInterview: kv.sadd('study-interviews:<studyId>', id)
RaceSaveInterviewStudyIndex ==
  \E p \in Procs :
    /\ procs[p].kind = "save" /\ procs[p].pc = "sadd"
    /\ kv' = [kv EXCEPT !.index[RaceStudy] = @ \cup {procs[p].id}]
    /\ procs' = [procs EXCEPT ![p].pc = "saddAll"]
    /\ UNCHANGED RaceVars

\* saveInterview: kv.sadd('all-interviews', id)
RaceSaveInterviewAllIndex ==
  \E p \in Procs :
    /\ procs[p].kind = "save" /\ procs[p].pc = "saddAll"
    /\ kv' = [kv EXCEPT !.all = @ \cup {procs[p].id}]
    /\ procs' = [procs EXCEPT ![p].pc = "incGet"]
    /\ UNCHANGED RaceVars

\* incrementStudyInterviewCount: getStudy
RaceIncrementGet ==
  \E p \in Procs :
    /\ procs[p].kind = "save" /\ procs[p].pc = "incGet"
    /\ procs' = [procs EXCEPT ![p] =
                   IF kv.studies[RaceStudy].id = Null
                     THEN [@ EXCEPT !.pc = "lockGet"]
                     ELSE [@ EXCEPT !.pc = "incSet", !.study = kv.studies[RaceStudy]]]
    /\ UNCHANGED <<kv, RaceVars>>

\* mutant: the copy is stored as it was read
RaceIncrementSave_NoIncrement ==
  \E p \in Procs :
    /\ procs[p].kind = "save" /\ procs[p].pc = "incSet"
    /\ kv' = [kv EXCEPT !.studies[RaceStudy] = procs[p].study]
    /\ procs' = [procs EXCEPT ![p].pc = "lockGet", ![p].study = NoStoredStudy]
    /\ UNCHANGED RaceVars

\* incrementStudyInterviewCount: saveStudy of the copy read, count + 1
RaceIncrementSave ==
  \E p \in Procs :
    /\ procs[p].kind = "save" /\ procs[p].pc = "incSet"
    /\ kv' = [kv EXCEPT !.studies[RaceStudy] =
                [procs[p].study EXCEPT !.interviewCount = @ + 1]]
    /\ procs' = [procs EXCEPT ![p].pc = "lockGet", ![p].study = NoStoredStudy]
    /\ UNCHANGED RaceVars

\* lockStudy: getStudy; returns when the study is missing or already locked
RaceLockGet ==
  \E p \in Procs :
    /\ procs[p].kind = "save" /\ procs[p].pc = "lockGet"
    /\ procs' = [procs EXCEPT ![p] =
                   IF kv.studies[RaceStudy].id = Null \/ kv.studies[RaceStudy].isLocked
                     THEN [@ EXCEPT !.pc = "done", !.status = 200]
                     ELSE [@ EXCEPT !.pc = "lockSet", !.study = kv.studies[RaceStudy]]]
    /\ UNCHANGED <<kv, RaceVars>>

\* lockStudy: saveStudy of the copy read with isLocked set
RaceLockSave ==
  \E p \in Procs :
    /\ procs[p].kind = "save" /\ procs[p].pc = "lockSet"
    /\ kv' = [kv EXCEPT !.studies[RaceStudy] = [procs[p].study EXCEPT !.isLocked = TRUE]]
    /\ procs' = [procs EXCEPT ![p].pc = "done", ![p].study = NoStoredStudy,
                              ![p].status = 200]
    /\ UNCHANGED RaceVars

\* PUT /api/studies/[id]: getStudy, the soft lock, and the copy to store.
\* The study-detail toggle sends { config } without 'confirmed'.
RacePutGet ==
  \E p \in Procs, linksEnabled \in BOOLEAN, confirmed \in BOOLEAN :
    /\ procs[p].kind = "none"
    /\ LET study == kv.studies[RaceStudy]
           put == [NoProc EXCEPT !.kind = "put", !.linksEnabled = linksEnabled,
                                 !.confirmed = confirmed]
       IN  procs' = [procs EXCEPT ![p] =
                       IF study.id = Null
                         THEN [put EXCEPT !.pc = "done", !.status = 404]
                       ELSE IF requiresConfirmation(study, confirmed)
                         THEN [put EXCEPT !.pc = "done", !.status = 409]
                       ELSE [put EXCEPT !.pc = "putSave", !.study = study]]
    /\ UNCHANGED <<kv, RaceVars>>

\* PUT /api/studies/[id]: saveStudy(updatedStudy)
RacePutSave ==
  \E p \in Procs :
    /\ procs[p].kind = "put" /\ procs[p].pc = "putSave"
    /\ kv' = [kv EXCEPT !.studies[RaceStudy] =
                updatedStudy(procs[p].study, procs[p].linksEnabled)]
    /\ procs' = [procs EXCEPT ![p].pc = "done", ![p].study = NoStoredStudy,
                              ![p].status = 200]
    /\ UNCHANGED RaceVars

\* DELETE /api/studies/[id]: getStudy
RaceDeleteGet ==
  \E p \in Procs :
    /\ procs[p].kind = "none"
    /\ procs' = [procs EXCEPT ![p] =
                   IF kv.studies[RaceStudy].id = Null
                     THEN [NoProc EXCEPT !.kind = "delete", !.pc = "done", !.status = 404]
                     ELSE [NoProc EXCEPT !.kind = "delete", !.pc = "smembers"]]
    /\ UNCHANGED <<kv, RaceVars>>

\* deleteStudy: kv.smembers('study-interviews:<id>'), refusal when not empty
RaceDeleteMembers ==
  \E p \in Procs :
    /\ procs[p].kind = "delete" /\ procs[p].pc = "smembers"
    /\ procs' = [procs EXCEPT ![p] =
                   IF kv.index[RaceStudy] # {}
                     THEN [@ EXCEPT !.pc = "done", !.status = 400]
                     ELSE [@ EXCEPT !.pc = "del"]]
    /\ UNCHANGED <<kv, RaceVars>>

\* deleteStudy: kv.del('study:<id>')
RaceDeleteDel ==
  \E p \in Procs :
    /\ procs[p].kind = "delete" /\ procs[p].pc = "del"
    /\ kv' = [kv EXCEPT !.studies[RaceStudy] = NoStoredStudy]
    /\ procs' = [procs EXCEPT ![p].pc = "done", ![p].status = 200]
    /\ UNCHANGED RaceVars

RaceNext ==
  \/ RaceSaveVerify
  \/ RaceSaveInterviewSet
  \/ RaceSaveInterviewStudyIndex
  \/ RaceSaveInterviewAllIndex
  \/ RaceIncrementGet
  \/ RaceIncrementSave
  \/ RaceLockGet
  \/ RaceLockSave
  \/ RacePutGet
  \/ RacePutSave
  \/ RaceDeleteGet
  \/ RaceDeleteMembers
  \/ RaceDeleteDel

RaceSpec == RaceInit /\ [][RaceNext]_vars


\* ======================================================================
\* Properties
\* ======================================================================
fields == store.participantProfile.fields
currentPhase == store.questionProgress.currentPhase
isComplete == store.questionProgress.isComplete
questionsAsked == store.questionProgress.questionsAsked
interviewHistory == store.interviewHistory
messagesPerTopic == store.behaviorData.messagesPerTopic

Range(f) == {f[i] : i \in DOMAIN f}

\* a step in which a suspended handleSend resumes and finishes
TurnResumes == turn.status = "awaiting" /\ turn'.status = "idle"

\* C1: once isComplete is true, no later step changes a profile field,
\* currentPhase or the questionsAsked set.
C1_TerminalSticky ==
  [][isComplete =>
       /\ fields' = fields
       /\ currentPhase' = currentPhase
       /\ Range(questionsAsked') = Range(questionsAsked)]_vars

\* C2: in every reachable state isComplete is true iff currentPhase is
\* 'wrap-up'.
C2_CompleteIffWrapUp == isComplete <=> (currentPhase = "wrap-up")

\* C3: every participant message in interviewHistory is followed by exactly
\* one ai message before the next participant message; only the message of
\* the turn still in flight has none yet.
C3_OneAiMessagePerTurn ==
  \A i \in DOMAIN interviewHistory :
     interviewHistory[i].role = "user" =>
       IF i = Len(interviewHistory)
         THEN turn.status = "awaiting"
         ELSE /\ interviewHistory[i + 1].role = "ai"
              /\ (i + 2 <= Len(interviewHistory)
                    => interviewHistory[i + 2].role = "user")

\* a turn whose client call threw has ended with its fallback message, after
\* an earlier turn
C3_Witness ==
  /\ turn.status = "idle"
  /\ turn.outcome = "client-throw"
  /\ Cardinality(UserMessages(interviewHistory)) = 2
  /\ interviewHistory[Len(interviewHistory)] = [role |-> "ai", content |-> CatchMessage]

\* C4: a response with shouldConclude and the early-termination request both
\* leave isComplete = true and currentPhase = 'wrap-up', whatever the
\* questionsAsked and the phaseTransition of the same response; isComplete
\* never becomes true without currentPhase being 'wrap-up' in the same state.
C4_CompletionSetsBoth ==
  [][/\ (~isComplete /\ isComplete') => currentPhase' = "wrap-up"
     /\ (TurnResumes /\ turn'.outcome = "success" /\ response'.shouldConclude)
          => (isComplete' /\ currentPhase' = "wrap-up")
     /\ HandleFinishEarly => (isComplete' /\ currentPhase' = "wrap-up")]_vars

\* the collaborator concluded in a turn that also declared another phase,
\* with no core question addressed
C4_Witness ==
  /\ turn.outcome = "success"
  /\ response.shouldConclude
  /\ response.phaseTransition = "exploration"
  /\ questionsAsked = <<>>
  /\ isComplete
  /\ currentPhase = "wrap-up"

\* markQuestionAsked of an index already present changes nothing
MarkIsIdempotent(s) ==
  \A i \in Range(s.questionProgress.questionsAsked) : markQuestionAsked(s, i) = s

\* C5: questionsAsked never shrinks: a step leaves it unchanged or appends one
\* index that was not present, and markQuestionAsked(i) for an index already
\* present leaves the whole state unchanged.
C5_QuestionsAskedMonotone ==
  [][/\ \/ questionsAsked' = questionsAsked
         \/ \E i \in 0..(MaxQuestions - 1) :
              /\ i \notin Range(questionsAsked)
              /\ questionsAsked' = Append(questionsAsked, i)
     /\ MarkIsIdempotent(store)
     /\ MarkIsIdempotent(store')]_vars

\* two indices have been marked, the second by the last response
C5_Witness ==
  /\ Len(questionsAsked) = 2
  /\ turn.outcome = "success"
  /\ response.questionAddressed = questionsAsked[2]

Perms(n) == {f \in [1..n -> 1..n] : \A i, j \in 1..n : f[i] = f[j] => i = j}

Declarations ==
  {[value |-> "v", status |-> "extracted"], [value |-> Null, status |-> "refused"],
   [value |-> "w", status |-> "vague"]}

\* no response has been applied yet in this session
NoTurnResolved ==
  \/ UserMessages(interviewHistory) = {}
  \/ Cardinality(UserMessages(interviewHistory)) = 1 /\ turn.status = "awaiting"

\* C6: initializeProfile yields one entry per schema field, in schema order,
\* all null and pending; updateProfileField applied once per field id, in any
\* order, yields the same entries with the declared values and statuses.
C6_ProfileRoundTrip ==
  store.participantProfile.id # Null =>
    LET schema == store.studyConfig.profileSchema
        n == Len(schema)
    IN /\ Len(fields) = n
       /\ \A i \in 1..n : fields[i].fieldId = schema[i]
       /\ NoTurnResolved =>
            /\ store.participantProfile = initializeProfile(store, schema).participantProfile
            /\ \A i \in 1..n : fields[i].value = Null /\ fields[i].status = "pending"
            /\ \A order \in Perms(n), decl \in [1..n -> Declarations] :
                 LET updates == [k \in 1..n |->
                                   [fieldId |-> schema[order[k]],
                                    value |-> decl[order[k]].value,
                                    status |-> decl[order[k]].status]]
                     final == ApplyProfileUpdates(store, updates).participantProfile.fields
                 IN /\ Len(final) = n
                    /\ \A i \in 1..n :
                         final[i] = [fieldId |-> schema[i], value |-> decl[i].value,
                                     status |-> decl[i].status]

\* a response updated both fields of a two-field profile, in the order
\* opposite to the schema's
C6_Witness ==
  /\ Len(fields) = 2
  /\ turn.outcome = "success"
  /\ Len(response.profileUpdates) = 2
  /\ response.profileUpdates[1].fieldId = fields[2].fieldId
  /\ response.profileUpdates[2].fieldId = fields[1].fieldId
  /\ \A i \in 1..2 : fields[i].status # "pending"
  /\ fields[1].status # fields[2].status

KnownField(s, fieldId) ==
  \E i \in DOMAIN s.participantProfile.fields :
     s.participantProfile.fields[i].fieldId = fieldId

RECURSIVE KnownUpdates(_, _)
KnownUpdates(s, updates) ==
  IF updates = <<>> THEN <<>>
  ELSE IF KnownField(s, Head(updates).fieldId)
         THEN <<Head(updates)>> \o KnownUpdates(s, Tail(updates))
         ELSE KnownUpdates(s, Tail(updates))

\* C7: an update for a fieldId that is not in the profile leaves the fields
\* identical, and the other updates of the same response are applied.
C7_UnknownFieldDropped ==
  [][(TurnResumes /\ turn'.outcome = "success") =>
       /\ fields' = ApplyProfileUpdates(
                      store, KnownUpdates(store, response'.profileUpdates)
                    ).participantProfile.fields
       /\ KnownUpdates(store, response'.profileUpdates) = <<>> => fields' = fields
       /\ Len(fields') = Len(fields)
       /\ \A i \in DOMAIN fields : fields'[i].fieldId = fields[i].fieldId]_vars

\* a response named an unknown field first and a known one second, and the
\* known field was extracted
C7_Witness ==
  /\ turn.outcome = "success"
  /\ Len(response.profileUpdates) = 2
  /\ response.profileUpdates[1].fieldId = UnknownField
  /\ Len(fields) = 2
  /\ response.profileUpdates[2].fieldId = fields[2].fieldId
  /\ fields[2].status = response.profileUpdates[2].status
  /\ fields[2].status # "pending"
  /\ fields[1].status = "pending"

Increment(counters, phase) == [counters EXCEPT ![phase] = @ + 1]

\* C8 as stated: a turn raises the counters by one in total, at the phase
\* current when the participant's message was appended.
C8_OncePerTurn ==
  [][/\ HandleSend => messagesPerTopic' = Increment(messagesPerTopic, currentPhase)
     /\ TurnResumes => messagesPerTopic' = messagesPerTopic]_vars

\* C8 amended: every appended message, the participant's, the AI's and the
\* greeting, raises by one the counter of the phase current when it is
\* appended; for the AI message of a response that is the phase after the
\* response's phaseTransition.  Nothing else changes the counters.
C8_OncePerMessage ==
  [][LET key == IF TurnResumes /\ turn'.outcome = "success"
                     /\ response'.phaseTransition # Null
                  THEN response'.phaseTransition
                  ELSE currentPhase
     IN /\ Len(interviewHistory') \in {Len(interviewHistory), Len(interviewHistory) + 1}
        /\ Len(interviewHistory') = Len(interviewHistory)
             => messagesPerTopic' = messagesPerTopic
        /\ Len(interviewHistory') = Len(interviewHistory) + 1
             => messagesPerTopic' = Increment(messagesPerTopic, key)
        /\ TurnResumes => Len(interviewHistory') = Len(interviewHistory) + 1
        /\ HandleSend => Len(interviewHistory') = Len(interviewHistory) + 1]_vars

\* greeting and participant message counted under background, the AI message
\* of the same turn under the phase its response moved to
C8_Witness ==
  /\ turn.outcome = "success"
  /\ response.phaseTransition = "exploration"
  /\ Len(interviewHistory) = 3
  /\ messagesPerTopic["background"] = 2
  /\ messagesPerTopic["exploration"] = 1

\* C9: a turn whose collaborator call failed (provider fallback or client
\* throw) leaves the profile, its rawContext and the question progress
\* unchanged; it only appends the participant message and one fallback AI
\* message.
C9_FailureChangesNothing ==
  [][/\ HandleSend =>
          /\ store'.participantProfile = store.participantProfile
          /\ store'.questionProgress = store.questionProgress
     /\ (TurnResumes /\ turn'.outcome \in {"provider-fallback", "client-throw"}) =>
          /\ store'.participantProfile = store.participantProfile
          /\ store'.questionProgress = store.questionProgress
          /\ \E content \in {defaultInterviewResponse.message, CatchMessage} :
               interviewHistory' =
                 Append(interviewHistory, [role |-> "ai", content |-> content])]_vars

\* the provider fell back in the second turn of a session that had left
\* the background phase and extracted a field
C9_Witness ==
  /\ turn.outcome = "provider-fallback"
  /\ turn.status = "idle"
  /\ currentPhase = "core-questions"
  /\ \E i \in DOMAIN fields : fields[i].status = "extracted"
  /\ interviewHistory[Len(interviewHistory)].content = defaultInterviewResponse.message

\* C10: currentPhase is one of the five phases in every reachable state.
C10_PhaseInEnum == currentPhase \in Phases

\* a step appends a participant message to the transcript
UserMessageAppended ==
  /\ Len(store'.interviewHistory) = Len(interviewHistory) + 1
  /\ store'.interviewHistory[Len(interviewHistory) + 1].role = "user"

\* C11: at most one turn is in flight: while a turn's AI call or the
\* greeting's fetch is awaited isAiThinking is true, the two never overlap,
\* and a participant message is appended (a handleSend starts) only when
\* no turn and no greeting is awaited and isAiThinking is false.
C11_OneTurnInFlight ==
  [][ /\ (turn.status = "awaiting" \/ greeting = "awaiting") => store.isAiThinking
      /\ ~(turn.status = "awaiting" /\ greeting = "awaiting")
      /\ UserMessageAppended =>
            /\ ~store.isAiThinking
            /\ turn.status = "idle"
            /\ greeting # "awaiting" ]_vars

\* the second turn is in flight after the first one ended
C11_Witness ==
  /\ turn.status = "awaiting"
  /\ store.isAiThinking
  /\ Cardinality(UserMessages(interviewHistory)) = 2
  /\ Len(interviewHistory) >= 3

\* C12 as stated: in every non-complete state of a started session the
\* participant can finish early, in any phase including 'background'.
C12_FinishAlwaysOffered ==
  (initialized /\ ~isComplete) => ENABLED HandleFinishEarly

\* C12 amended: the option appears only at a step that leaves the phase other
\* than 'background', it is offered whenever the phase is not 'background',
\* it stays offered afterwards (also while a turn is in flight and after a
\* return to 'background') until the interview is complete, and the request
\* yields isComplete = true and currentPhase = 'wrap-up' in the same step.
C12_FinishAfterBackground ==
  [][ /\ (~showFinishOption /\ showFinishOption') => store'.questionProgress.currentPhase # "background"
      /\ currentPhase # "background" => showFinishOption
      /\ showFinishOption => showFinishOption'
      /\ (showFinishOption /\ ~isComplete) => ENABLED HandleFinishEarly
      /\ HandleFinishEarly =>
            /\ store'.questionProgress.isComplete
            /\ store'.questionProgress.currentPhase = "wrap-up" ]_vars

\* finished early while a turn sent outside 'background' was in flight
C12_Witness ==
  /\ turn.status = "awaiting"
  /\ turn.currentPhase \notin {Null, "background"}
  /\ showFinishOption
  /\ isComplete
  /\ currentPhase = "wrap-up"

\* C13: when the greeting's fetch or a turn's AI call settles, isAiThinking
\* is false afterwards, so that the participant can send again.
C13_ThinkingReset ==
  [][ ((greeting = "awaiting" /\ greeting' # "awaiting") \/ TurnResumes)
        => ~store'.isAiThinking ]_vars

\* C14: every step leaves interviewHistory unchanged or appends exactly one
\* message; a turn's AI message is appended right after that turn's
\* participant message, and a participant message is appended only to an
\* empty transcript or after an AI message.
C14_AppendOnly ==
  [][ /\ \/ store'.interviewHistory = interviewHistory
         \/ /\ Len(store'.interviewHistory) = Len(interviewHistory) + 1
            /\ SubSeq(store'.interviewHistory, 1, Len(interviewHistory)) = interviewHistory
      /\ TurnResumes =>
            /\ Len(interviewHistory) > 0
            /\ interviewHistory[Len(interviewHistory)] = [role |-> "user", content |-> turn.text]
            /\ Len(store'.interviewHistory) = Len(interviewHistory) + 1
            /\ store'.interviewHistory[Len(interviewHistory) + 1].role = "ai"
      /\ UserMessageAppended =>
            \/ interviewHistory = <<>>
            \/ interviewHistory[Len(interviewHistory)].role = "ai" ]_vars

\* greeting, then two full turns in order
C14_Witness ==
  /\ Len(interviewHistory) = 5
  /\ turn.status = "idle"
  /\ <<interviewHistory[1].role, interviewHistory[2].role, interviewHistory[3].role,
       interviewHistory[4].role, interviewHistory[5].role>>
       = <<"ai", "user", "ai", "user", "ai">>
  /\ interviewHistory[2].content = UserText(1)
  /\ interviewHistory[4].content = UserText(2)

\* ---------------------------------------------------------- server side
\* the aggregate route answers
AggregateResponds ==
  /\ request.kind = "aggregate"
  /\ request.pc = "aggregate"
  /\ request'.pc = "done"

\* the interviews of a study in storage that carry a synthesis
StoredSyntheses(studyId) ==
  IF studyId = Null THEN {}
  ELSE {i \in getStudyInterviews(kv, studyId) : i.synthesis # Null}

C16_NoCrossStudyOverwrite ==
  [][ \A b \in Studies :
        (request.kind = "save" /\ request.auth.studyId \notin {Null, b}) =>
          \A i \in kv.index[b] :
            kv.interviews[i].studyId = b => kv'.interviews[i] = kv.interviews[i] ]_vars

\* a save request arrives and is checked
SaveArrives == request.pc = "idle" /\ request'.kind = "save"

\* C17: a save request whose token is tied to a study and whose body names
\* another studyId is answered 403 at once and writes nothing, then or later.
C17_MismatchRejected ==
  [][ /\ (/\ SaveArrives
          /\ request'.auth.valid
          /\ ~request'.auth.isAdmin
          /\ request'.auth.studyId # Null
          /\ request'.body.studyId \notin {Null, request'.auth.studyId})
         => /\ request'.pc = "done"
            /\ request'.resp.status = 403
            /\ kv' = kv
      /\ request.pc = "done" => (kv' = kv /\ request' = NoRequest) ]_vars

\* a token for study-a with a body for study-b, after interviews of study-b
\* were stored
C17_Witness ==
  /\ request.kind = "save"
  /\ request.resp.status = 403
  /\ request.auth.studyId = "study-a"
  /\ request.body.studyId = "study-b"
  /\ kv.index["study-b"] # {}

\* C18: every interview record written has status 'completed' and
\* completedAt equal to the server's time of the save; its createdAt is the
\* client's only if that is present and earlier than the server's time, and
\* the server's time otherwise; so createdAt <= completedAt.
C18_ServerAssigned ==
  [][ \A i \in InterviewIds :
        kv'.interviews[i] # kv.interviews[i] =>
          LET rec == kv'.interviews[i]
              sent == request.body
          IN /\ rec.status = "completed"
             /\ rec.completedAt = clock
             /\ rec.createdAt =
                  (IF sent.createdAt # 0 /\ sent.createdAt < clock
                     THEN sent.createdAt ELSE clock)
             /\ rec.createdAt <= rec.completedAt ]_vars

\* a body with status in_progress, a backdated completedAt and a createdAt
\* after the server's time was stored
C18_Witness ==
  /\ request.kind = "save"
  /\ request.body.status = "in_progress"
  /\ request.body.completedAt < clock
  /\ request.body.createdAt > clock
  /\ kv.interviews[request.body.id] = request.interview
  /\ request.interview.createdAt = clock

MetadataSteps == {"incGet", "incSet", "lockGet", "lockSet"}

\* C19: once saveInterview has written the record and both indexes, no
\* later step of the request touches them, whatever happens to the count
\* and the lock, and the request ends with success.
C19_MetadataBestEffort ==
  [][ (request.kind = "save" /\ request.pc \in MetadataSteps) =>
        /\ kv'.interviews = kv.interviews
        /\ kv'.index = kv.index
        /\ kv'.all = kv.all
        /\ kv.interviews[request.interview.id] = request.interview
        /\ request'.pc \in MetadataSteps \cup {"done"}
        /\ request'.pc = "done" =>
             /\ request'.resp.status = 200
             /\ request'.resp.success
             /\ request'.resp.id = request.interview.id ]_vars

\* success although the stored study kept its count and stayed unlocked
C19_Witness ==
  /\ request.kind = "save"
  /\ request.resp.success
  /\ kv.interviews[request.interview.id] = request.interview
  /\ kv.studies[request.interview.studyId].id # Null
  /\ kv.studies[request.interview.studyId].interviewCount = 0
  /\ ~kv.studies[request.interview.studyId].isLocked

rawContext == store.participantProfile.rawContext

\* C26: rawContext changes only when a turn sent in 'background' resumes
\* with a response that declares at least one profile update; it then
\* becomes the previous rawContext, a newline if that was non-empty, and the
\* participant's text; every other step leaves it unchanged.
C26_RawContextFrame ==
  [][ IF /\ TurnResumes
         /\ turn.currentPhase = "background"
         /\ Len(response'.profileUpdates) > 0
        THEN store'.participantProfile.rawContext =
               rawContext \o (IF rawContext # <<>> THEN <<"\n">> ELSE <<>>)
                          \o <<turn.text>>
        ELSE store'.participantProfile.rawContext = rawContext ]_vars

\* two background turns with profile updates, then the text of both
C26_Witness ==
  /\ turn.status = "idle"
  /\ rawContext = <<UserText(1), "\n", UserText(2)>>

\* C28: once the profile is initialized, questionProgress.total is the
\* number of core questions of the study.
C28_TotalIsQuestionCount ==
  store.participantProfile.id # Null =>
    store.questionProgress.total = store.studyConfig.coreQuestions

\* C30: every element of questionsAsked is an index of a core question of
\* the study, no element occurs twice, and there are at most as many as
\* core questions.
C30_ValidIndexes ==
  /\ \A i \in DOMAIN questionsAsked :
       /\ 0 <= questionsAsked[i]
       /\ questionsAsked[i] < store.studyConfig.coreQuestions
  /\ \A i, j \in DOMAIN questionsAsked :
       questionsAsked[i] = questionsAsked[j] => i = j
  /\ Len(questionsAsked) <= store.studyConfig.coreQuestions

\* C25: cleanJSON returns exactly the text of the one well-formed JSON value
\* of the payload, whatever prose and code-fence markers surround it, and
\* cleanJSON of its own output is that output.
C25_CleanJSONExtracts ==
  (call.fn = "cleanJSON" /\ call.done) =>
    /\ call.result = call.json
    /\ call.again = call.result

\* C23: every successful aggregate-synthesis response has commonThemes,
\* keyFindings and bottomLine present and non-null whatever the collaborator
\* answered, and the fixed placeholder when the collaborator's call failed.
C23_AggregateFieldsPresent ==
  (call.fn = "synthesizeAggregate" /\ call.done /\ call.status = 200) =>
    /\ call.synthesis.commonThemes \notin {"absent", "null"}
    /\ call.synthesis.keyFindings \notin {"absent", "null"}
    /\ call.synthesis.bottomLine \notin {"absent", "null"}
    /\ call.outcome.kind = "throws" =>
         /\ call.synthesis.commonThemes = defaultAggregateSynthesisResult.commonThemes
         /\ call.synthesis.keyFindings = defaultAggregateSynthesisResult.keyFindings
         /\ call.synthesis.bottomLine = defaultAggregateSynthesisResult.bottomLine

\* the request passed authentication, the storage check and the study lookup
ReachedValidation ==
  /\ call.session = "valid"
  /\ call.available
  /\ call.storage.studies[call.studyId].id # Null

\* C24: follow-up generation answers 400, without invoking the collaborator,
\* exactly when the synthesis is missing or its keyFindings are missing or
\* empty; a request whose collaborator is invoked gets a draft (also when the
\* collaborator fails), and no request writes to the storage.
C24_FollowupRejection ==
  (call.fn = "generateFollowup" /\ call.done) =>
    /\ kv = call.storage
    /\ call.resp.status = 400 => ~call.collaboratorCalled
    /\ ReachedValidation =>
         (call.resp.status = 400 <=> InvalidSynthesis(call.synthesis))
    /\ (ReachedValidation /\ ~InvalidSynthesis(call.synthesis)
          /\ call.provider # "unconfigured") =>
         /\ call.resp.status = 200
         /\ call.collaboratorCalled
         /\ call.resp.followUpConfig.present
         /\ call.resp.followUpConfig.parentStudyId = call.studyId
    /\ call.resp.status # 200 => ~call.resp.followUpConfig.present

C24_Witness ==
  /\ call.fn = "generateFollowup"
  /\ call.done
  /\ call.resp.status = 200
  /\ call.provider = "failed"
  /\ call.resp.followUpConfig.suggestions = "fallback"
  /\ call.storage.studies[call.studyId].interviewCount = 0

\* the save requests that have finished with success
SavesDone == {p \in Procs : procs[p].kind = "save" /\ procs[p].pc = "done"
                                                   /\ procs[p].status = 200}

\* all requests made so far are saves and all have finished with success
OnlySavesAllDone ==
  /\ SavesDone # {}
  /\ \A p \in Procs : procs[p].kind = "none" \/ p \in SavesDone

\* C21: once k >= 1 concurrent successful saves of distinct sessions have all
\* finished (no other writer of the study record), the study's interviewCount
\* has grown by at least 1 and at most k, and isLocked is true.
C21_CountAndLock ==
  OnlySavesAllDone =>
    /\ kv.studies[RaceStudy].interviewCount >= 1
    /\ kv.studies[RaceStudy].interviewCount <= Cardinality(SavesDone)
    /\ kv.studies[RaceStudy].isLocked

\* two saves raced and one increment was lost
C21_Witness ==
  /\ OnlySavesAllDone
  /\ Cardinality(SavesDone) >= 2
  /\ kv.studies[RaceStudy].interviewCount = 1
  /\ kv.index[RaceStudy] = {SessionIds[p] : p \in SavesDone}

\* C22: the study-detail toggle revokes the links at any time, also when
\* interviews exist: its update request stores linksEnabled = false, and a
\* request with a participant token verified while the stored record has
\* linksEnabled = false is rejected.
C22_ToggleRevokes ==
  [][\A p \in Procs :
       /\ (/\ procs[p].kind = "none"
           /\ procs'[p].kind = "put"
           /\ ~procs'[p].confirmed
           /\ ~procs'[p].linksEnabled
           /\ kv.studies[RaceStudy].id # Null) => procs'[p].pc = "putSave"
       /\ (/\ procs[p].pc = "putSave"
           /\ ~procs[p].linksEnabled
           /\ procs'[p].pc = "done") => ~kv'.studies[RaceStudy].linksEnabled
       /\ (/\ procs[p].kind = "none"
           /\ procs'[p].kind = "save"
           /\ kv.studies[RaceStudy].id # Null
           /\ ~kv.studies[RaceStudy].linksEnabled) => procs'[p].status = 401]_vars

\* C27: the study record is never removed while the study's interview index
\* holds the interview of a save that had succeeded before the removal.
C27_DeletedOnlyWithoutInterviews ==
  [][(kv.studies[RaceStudy].id # Null /\ kv'.studies[RaceStudy].id = Null) =>
       ~\E p \in SavesDone : SessionIds[p] \in kv.index[RaceStudy]]_vars

\* C29: once the stored record has isLocked = true no save or update stores
\* it with isLocked = false, and no save or update decreases interviewCount.
C29_LockMonotonic ==
  [][(kv.studies[RaceStudy].id # Null /\ kv'.studies[RaceStudy].id # Null) =>
       /\ kv.studies[RaceStudy].isLocked => kv'.studies[RaceStudy].isLocked
       /\ kv'.studies[RaceStudy].interviewCount >=
            kv.studies[RaceStudy].interviewCount]_vars

====
